---- MODULE Spec2Model ----
(***************************************************************************)
(* Model of backend/pitch_evaluator.py (class PitchEvaluator).             *)
(*                                                                         *)
(* One call is modelled at a time; `entry` names the method that was       *)
(* called: evaluate_pitch (the pipeline), or one of transcribe_audio,      *)
(* analyze_transcript and _calculate_overall_score called directly.        *)
(* The two remote services are the environment: every request draws its    *)
(* answer from the set of answers the service can give.                    *)
(*                                                                         *)
(* Numbers: section totals and overall_score are kept in hundredths and   *)
(* the weighted sum in ten-thousandths, all as integers.                   *)
(* Exceptions are kept as the sequence of message layers, outermost first, *)
(* that the nested f-strings of the code build.                            *)
(***************************************************************************)
EXTENDS Integers, Sequences, FiniteSets, TLC

VARIABLES
    entry,            \* the method called by the caller
    pc,               \* position in the code
    max_retries,      \* argument of analyze_transcript
    attempt,          \* loop variable of analyze_transcript
    transcript,       \* local `transcript` / return value of transcribe_audio
    prompt,           \* last value of get_evaluation_prompt(transcript)
    content_analysis, \* return value of analyze_transcript
    overall_score,    \* return value of _calculate_overall_score (hundredths)
    evaluation,       \* return value of evaluate_pitch
    error,            \* the exception raised to the caller, <<>> if none
    upload_res,       \* answer to the upload request
    submit_res,       \* answer to the job-submission request
    poll_log,         \* answers to the poll requests, in order
    llm_log,          \* outcomes of the chat-completion requests, in order
    uploads,          \* number of upload requests sent
    submits,          \* number of job-submission requests sent
    polls,            \* number of poll requests sent
    llm_requests,     \* number of chat-completion requests sent
    sleeps,           \* number of time.sleep(1) backoffs in analyze_transcript
    analyze_calls,    \* number of calls of analyze_transcript
    score_calls,      \* number of calls of _calculate_overall_score
    handler,          \* main.py: the state of each call of analyze_pitch
    disk,             \* main.py: the file each path uploads/<filename> names
    inode_data        \* main.py: the content of each file

\* the state of one call of a method of PitchEvaluator
pipeline == <<entry, pc, max_retries, attempt, transcript, prompt,
              content_analysis, overall_score, evaluation, error,
              upload_res, submit_res, poll_log, llm_log,
              uploads, submits, polls, llm_requests, sleeps,
              analyze_calls, score_calls>>

\* the state of the HTTP layer of main.py
server == <<handler, disk, inode_data>>

vars == <<pipeline, server>>

----------------------------------------------------------------------------
(* Bounds *)

MaxPolls == 3

MaxRetriesArg == 3

MinRetriesArg == 0 - 1

MaxRequests == 3

(* Program constants *)

DefaultMaxRetries == 3

WeightAmbitiousness == 35

WeightImplementation == 50

WeightDelivery == 15

----------------------------------------------------------------------------
(* Values *)

Sections == {"ambitiousness", "implementation", "delivery"}

CategoryKeys(sec) ==
    CASE sec = "ambitiousness" ->
           <<"vision", "market_potential", "innovation", "scalability">>
      [] sec = "implementation" ->
           <<"technical_feasibility", "business_model", "go_to_market",
             "team_capability">>
      [] sec = "delivery" ->
           <<"communication_effectiveness", "storytelling",
             "authentic_expertise", "engagement_quality">>

\* JSON values a total can take; a number is kept in hundredths
Num(n) == [kind |-> "num", v |-> n]

Str == [kind |-> "str", v |-> 0]

Null == [kind |-> "null", v |-> 0]

Bool(b) == [kind |-> "bool", v |-> IF b THEN 100 ELSE 0]

ListValue == [kind |-> "list", v |-> 0]

ObjectValue == [kind |-> "obj", v |-> 0]

Absent == [kind |-> "absent", v |-> 0]

IsNumber(x) == x.kind \in {"num", "bool"}

\* a section object: the categories present with their score, and the total
MkSection(sec, scores, total) ==
    [kind  |-> "obj",
     cats  |-> [k \in {CategoryKeys(sec)[j] : j \in 1..Len(scores)} |->
                  scores[CHOOSE j \in 1..Len(scores) : CategoryKeys(sec)[j] = k]],
     total |-> total]

NoSection == [kind |-> "absent", cats |-> [k \in {} |-> 0], total |-> Absent]

NonObjectSection == [kind |-> "nonobj", cats |-> [k \in {} |-> 0], total |-> Absent]

\* a parsed JSON document
MkContent(a, i, d) ==
    [kind |-> "obj",
     sec  |-> [s \in Sections |-> CASE s = "ambitiousness" -> a
                                    [] s = "implementation" -> i
                                    [] s = "delivery" -> d]]

NonObjectContent(k) == [kind |-> k, sec |-> [s \in Sections |-> NoSection]]

NoneValue == NonObjectContent("null")

Unset == NonObjectContent("unset")

NoEvaluation ==
    [kind |-> "unset", transcript |-> "", ambitiousness_evaluation |-> NoSection,
     implementation_evaluation |-> NoSection, delivery_evaluation |-> NoSection,
     overall_score |-> 0]

NoScore == 0 - 100000

----------------------------------------------------------------------------
(* What the services can answer *)

Texts == {"hello world", "second pitch"}

NullText == "<null>"

ErrorMessages == {"audio too short", "unsupported format"}

InProgress == {"queued", "processing"}

PollAnswer(h, s, t, e) == [http |-> h, status |-> s, text |-> t, error |-> e]

PollAnswers ==
    {PollAnswer("ok", s, "", "") : s \in InProgress}
    \cup {PollAnswer("ok", "completed", t, "") : t \in Texts \cup {NullText}}
    \cup {PollAnswer("ok", "error", "", e) : e \in ErrorMessages}
    \cup {PollAnswer(h, "", "", "") : h \in {"non2xx", "transport"}}

RequestAnswers == {"ok", "non2xx", "transport"}

\* sample sections the language model can return for section sec
SampleSections(sec) ==
    { MkSection(sec, <<8, 8, 8, 8>>, Num(800)),
      MkSection(sec, <<10, 8, 6, 4>>, Num(700)),
      MkSection(sec, <<8, 8, 8, 6>>, Num(750)),
      MkSection(sec, <<2, 2, 2, 2>>, Num(1000)),
      MkSection(sec, <<10, 10, 10, 10>>, Num(1200)),
      MkSection(sec, <<8, 8, 6>>, Num(733)),
      NoSection }

\* totals that are missing or are not JSON numbers
OddTotals == {Absent, Str, Null, Bool(TRUE), Bool(FALSE), ListValue, ObjectValue}

\* documents with one odd total (or one section that is no object) among
\* sections that are otherwise well formed
OddContents ==
    LET good(sec) == MkSection(sec, <<8, 8, 8, 8>>, Num(800))
        odd(sec, t) == MkSection(sec, <<8, 8, 8, 8>>, t)
    IN  { MkContent(odd("ambitiousness", t), good("implementation"), good("delivery")) :
            t \in OddTotals }
        \cup { MkContent(good("ambitiousness"), odd("implementation", t), good("delivery")) :
            t \in OddTotals }
        \cup { MkContent(good("ambitiousness"), good("implementation"), odd("delivery", t)) :
            t \in OddTotals }
        \cup { MkContent(good("ambitiousness"), NonObjectSection, good("delivery")) }

SampleContents ==
    { MkContent(a, i, d) : a \in SampleSections("ambitiousness"),
                           i \in SampleSections("implementation"),
                           d \in SampleSections("delivery") }
    \cup OddContents
    \cup {NonObjectContent("list"), NoneValue}

LlmOutcome(k, c) == [kind |-> k, content |-> c]

LlmOutcomes ==
    {LlmOutcome(k, Unset) : k \in {"svc_error", "none", "empty", "invalid"}}
    \cup {LlmOutcome("json", c) : c \in SampleContents}

\* totals handed directly to _calculate_overall_score (hundredths)
DirectTotals == {0 - 200, 0, 267, 400, 600, 733, 800, 1000, 1200}

DirectContents ==
    { MkContent(MkSection("ambitiousness", <<>>, Num(a)),
                MkSection("implementation", <<>>, Num(i)),
                MkSection("delivery", <<>>, Num(d))) :
        a \in DirectTotals, i \in DirectTotals, d \in DirectTotals }
    \cup OddContents

----------------------------------------------------------------------------
(* Exceptions *)

\* str(e) of the exception a failed request raises
Cause(r) ==
    CASE r = "non2xx" -> "HTTPError"
      [] r = "transport" -> "ConnectionError"
      [] r = "open_error" -> "FileNotFoundError"
      [] r = "svc_error" -> "OpenAIError"
      [] r = "none" -> "TypeError"
      [] r = "empty" -> "Empty response from OpenAI API"
      [] r = "invalid" -> "JSONDecodeError"

\* evaluate_pitch, lines 278-280: every exception is wrapped once more
Wrap(msg) ==
    IF entry = "evaluate_pitch" THEN <<"Error in pitch evaluation">> \o msg
    ELSE msg

\* transcribe_audio, lines 319-320
TranscriptionFailure(msg) == Wrap(<<"Error in audio transcription">> \o msg)

\* where control goes when transcribe_audio raises
OnTranscriptionErrorM == IF entry = "evaluate_pitch" THEN "call_analyze" ELSE "raised"

OnTranscriptionErrorRetry ==
    IF entry = "evaluate_pitch" /\ uploads < 2 THEN "upload" ELSE "raised"

OnTranscriptionError == "raised"

\* raise_for_status, lines 302 and 334: the request went through and the
\* answer is 2xx
RequestOkUnchecked(r) == r \in {"ok", "non2xx"}

RequestOk(r) == r = "ok"

----------------------------------------------------------------------------
(* transcribe_audio and _upload_file *)

\* _upload_file, lines 322-339, and its call at line 288
UploadFile ==
    /\ pc = "upload"
    /\ \E r \in RequestAnswers \cup {"open_error"} :
         /\ upload_res' = r
         /\ uploads' = IF r = "open_error" THEN uploads ELSE uploads + 1
         /\ IF RequestOk(r)
            THEN /\ pc' = "submit"
                 /\ error' = error
            ELSE /\ pc' = OnTranscriptionError
                 /\ error' = TranscriptionFailure(<<"Error uploading file", Cause(r)>>)
    /\ UNCHANGED server
    /\ UNCHANGED <<entry, max_retries, attempt, transcript, prompt,
                   content_analysis, overall_score, evaluation, submit_res,
                   poll_log, llm_log, submits, polls, llm_requests, sleeps,
                   analyze_calls, score_calls>>

\* lines 291-303
SubmitJob ==
    /\ pc = "submit"
    /\ \E r \in RequestAnswers :
         /\ submit_res' = r
         /\ submits' = submits + 1
         /\ IF RequestOk(r)
            THEN /\ pc' = "poll"
                 /\ error' = error
            ELSE /\ pc' = OnTranscriptionError
                 /\ error' = TranscriptionFailure(<<Cause(r)>>)
    /\ UNCHANGED server
    /\ UNCHANGED <<entry, max_retries, attempt, transcript, prompt,
                   content_analysis, overall_score, evaluation, upload_res,
                   poll_log, llm_log, uploads, polls, llm_requests, sleeps,
                   analyze_calls, score_calls>>

\* the branch of lines 309-317 taken for poll answer a
PollOutcomeEager(a) ==
    CASE a.http # "ok" -> "raise_http"
      [] a.status = "error" -> "raise_error"
      [] OTHER -> "return"

PollOutcomeRetrying(a) ==
    CASE a.http # "ok" -> "sleep"
      [] a.status = "completed" -> "return"
      [] a.status = "error" -> "raise_error"
      [] OTHER -> "sleep"

PollOutcomeCapped(a) ==
    CASE a.http # "ok" -> "raise_http"
      [] a.status = "completed" -> "return"
      [] a.status = "error" -> "raise_error"
      [] OTHER -> IF polls >= 1 THEN "raise_error" ELSE "sleep"

PollOutcomeTypo(a) ==
    CASE a.http # "ok" -> "raise_http"
      [] a.status = "error" -> "raise_error"
      [] OTHER -> "sleep"

PollOutcomeDeaf(a) ==
    CASE a.http # "ok" -> "raise_http"
      [] a.status = "completed" -> "return"
      [] OTHER -> "sleep"

PollOutcome(a) ==
    CASE a.http # "ok" -> "raise_http"
      [] a.status = "completed" -> "return"
      [] a.status = "error" -> "raise_error"
      [] OTHER -> "sleep"

\* lines 252-253: transcribe_audio returns text t to its caller
TranscriptReturned(t) ==
    /\ transcript' = t
    /\ IF entry = "transcribe_audio"
       THEN /\ pc' = "returned"
            /\ error' = error
       ELSE IF t = NullText
            THEN /\ pc' = "raised"
                 /\ error' = Wrap(<<"TypeError">>)
            ELSE /\ pc' = "call_analyze"
                 /\ error' = error

\* one iteration of the loop of lines 307-315
Poll ==
    /\ pc = "poll"
    /\ polls < MaxPolls
    /\ \E a \in PollAnswers :
         /\ polls' = polls + 1
         /\ poll_log' = Append(poll_log, a)
         /\ CASE PollOutcome(a) = "raise_http" ->
                   /\ pc' = OnTranscriptionError
                   /\ error' = TranscriptionFailure(<<Cause(a.http)>>)
                   /\ transcript' = transcript
              [] PollOutcome(a) = "return" ->
                   TranscriptReturned(a.text)
              [] PollOutcome(a) = "raise_error" ->
                   /\ pc' = OnTranscriptionError
                   /\ error' = TranscriptionFailure(<<"Transcription error", a.error>>)
                   /\ transcript' = transcript
              [] PollOutcome(a) = "sleep" ->
                   /\ pc' = "poll_sleep"
                   /\ error' = error
                   /\ transcript' = transcript
    /\ UNCHANGED server
    /\ UNCHANGED <<entry, max_retries, attempt, prompt, content_analysis,
                   overall_score, evaluation, upload_res, submit_res, llm_log,
                   uploads, submits, llm_requests, sleeps, analyze_calls,
                   score_calls>>

\* line 317
PollSleep ==
    /\ pc = "poll_sleep"
    /\ pc' = "poll"
    /\ UNCHANGED server
    /\ UNCHANGED <<entry, max_retries, attempt, transcript, prompt,
                   content_analysis, overall_score, evaluation, error,
                   upload_res, submit_res, poll_log, llm_log, uploads, submits,
                   polls, llm_requests, sleeps, analyze_calls, score_calls>>

----------------------------------------------------------------------------
(* analyze_transcript *)

\* lines 233 and 241: is another attempt left after a failed one
RetryLeftOffByOne(a, m) == a < m

RetryLeftAlways(a, m) == TRUE

RetryLeft(a, m) == a < m - 1

\* lines 225-230: does the attempt end in `return parsed_content`
ParsedLenient(o) == o.kind \in {"json", "invalid"}

Parsed(o) == o.kind = "json"

\* analyze_transcript returns value c to its caller (line 256)
AnalysisReturned(c) ==
    /\ content_analysis' = c
    /\ error' = error
    /\ pc' = IF entry = "analyze_transcript" THEN "returned" ELSE "call_score"

\* line 201: the for loop takes iteration a, or falls off its end
ForAttemptAtLeastOnce(a) ==
    IF a < max_retries \/ a = 0
    THEN /\ attempt' = a
         /\ pc' = "prompt"
         /\ content_analysis' = content_analysis
         /\ error' = error
    ELSE /\ attempt' = attempt
         /\ AnalysisReturned(NoneValue)

ForAttempt(a) ==
    IF a < max_retries
    THEN /\ attempt' = a
         /\ pc' = "prompt"
         /\ content_analysis' = content_analysis
         /\ error' = error
    ELSE /\ attempt' = attempt
         /\ AnalysisReturned(NoneValue)

\* line 200-201: the call, up to the first iteration of the loop
AnalyzeTranscript ==
    /\ pc = "call_analyze"
    /\ analyze_calls' = analyze_calls + 1
    /\ ForAttempt(0)
    /\ UNCHANGED server
    /\ UNCHANGED <<entry, max_retries, transcript, prompt, overall_score,
                   evaluation, upload_res, submit_res, poll_log, llm_log,
                   uploads, submits, polls, llm_requests, sleeps, score_calls>>

\* get_evaluation_prompt, lines 30-168, evaluated at line 209
GetEvaluationPrompt ==
    /\ pc = "prompt"
    /\ prompt' = <<"rubric", transcript>>
    /\ pc' = "request"
    /\ UNCHANGED server
    /\ UNCHANGED <<entry, max_retries, attempt, transcript, content_analysis,
                   overall_score, evaluation, error, upload_res, submit_res,
                   poll_log, llm_log, uploads, submits, polls, llm_requests,
                   sleeps, analyze_calls, score_calls>>

\* lines 205-245: the request and what the attempt does with its outcome
ChatCompletion ==
    /\ pc = "request"
    /\ \E o \in LlmOutcomes :
         /\ llm_requests' = llm_requests + 1
         /\ llm_log' = Append(llm_log, o)
         /\ IF Parsed(o)
            THEN AnalysisReturned(o.content)
            ELSE IF RetryLeft(attempt, max_retries)
                 THEN /\ pc' = "retry_sleep"
                      /\ error' = error
                      /\ content_analysis' = content_analysis
                 ELSE /\ pc' = "raised"
                      /\ error' = Wrap(<<"Error in transcript analysis after max_retries attempts",
                                         Cause(o.kind)>>)
                      /\ content_analysis' = content_analysis
    /\ UNCHANGED server
    /\ UNCHANGED <<entry, max_retries, attempt, transcript, prompt,
                   overall_score, evaluation, upload_res, submit_res, poll_log,
                   uploads, submits, polls, sleeps, analyze_calls, score_calls>>

\* lines 235-236 and 243-244: time.sleep(1); continue
RetrySleep ==
    /\ pc = "retry_sleep"
    /\ sleeps' = sleeps + 1
    /\ ForAttempt(attempt + 1)
    /\ UNCHANGED server
    /\ UNCHANGED <<entry, max_retries, transcript, prompt, overall_score,
                   evaluation, upload_res, submit_res, poll_log, llm_log,
                   uploads, submits, polls, llm_requests, analyze_calls,
                   score_calls>>

\* lines 212 and 221: the text of the response that was received
RawContent(o) ==
    CASE o.kind = "invalid" -> "Sure, here is the analysis"
      [] o.kind = "empty" -> "  "
      [] OTHER -> ""

\* line 245: the class of the exception raised once the attempts are used
\* up, for a last attempt that failed as k
ExhaustedClass(k) == "Exception"

----------------------------------------------------------------------------
(* _calculate_overall_score *)

\* lines 173-175: the exception the three lookups raise, "" if none
LookupError(c) ==
    IF c.kind # "obj" THEN "TypeError"
    ELSE LET bad(s) == c.sec[s].kind # "obj" \/ c.sec[s].total.kind = "absent"
             why(s) == IF c.sec[s].kind = "absent" THEN "KeyError"
                       ELSE IF c.sec[s].kind = "nonobj" THEN "TypeError"
                       ELSE "KeyError"
         IN  IF bad("ambitiousness") THEN why("ambitiousness")
             ELSE IF bad("implementation") THEN why("implementation")
             ELSE IF bad("delivery") THEN why("delivery")
             ELSE ""

\* lines 182-186 in ten-thousandths, for totals in hundredths
WeightedSumSwapped(a, i, d) ==
    a * WeightImplementation + i * WeightAmbitiousness + d * WeightDelivery

WeightedSum(a, i, d) ==
    a * WeightAmbitiousness + i * WeightImplementation + d * WeightDelivery

\* line 194: round(x, 2) of x given in ten-thousandths, in hundredths.
\* Exactly halfway the binary representation of x decides, so either neighbour
Round2(t) ==
    IF t % 100 < 50 THEN {t \div 100}
    ELSE IF t % 100 > 50 THEN {(t \div 100) + 1}
    ELSE {t \div 100, (t \div 100) + 1}

\* lines 170-198 and the call at line 260
CalculateOverallScore ==
    /\ pc = "call_score"
    /\ score_calls' = score_calls + 1
    /\ LET c == content_analysis
           a == c.sec["ambitiousness"].total
           i == c.sec["implementation"].total
           d == c.sec["delivery"].total
       IN  IF LookupError(c) # ""
           THEN /\ pc' = "raised"
                /\ error' = Wrap(<<"Error calculating overall score", LookupError(c)>>)
                /\ overall_score' = overall_score
           ELSE IF ~(IsNumber(a) /\ IsNumber(i) /\ IsNumber(d))
           THEN /\ pc' = "raised"
                /\ error' = Wrap(<<"Error calculating overall score", "TypeError">>)
                /\ overall_score' = overall_score
           ELSE /\ overall_score' \in Round2(WeightedSum(a.v, i.v, d.v))
                /\ error' = error
                /\ pc' = IF entry = "evaluate_pitch" THEN "compile" ELSE "returned"
    /\ UNCHANGED server
    /\ UNCHANGED <<entry, max_retries, attempt, transcript, prompt,
                   content_analysis, evaluation, upload_res, submit_res,
                   poll_log, llm_log, uploads, submits, polls, llm_requests,
                   sleeps, analyze_calls>>

----------------------------------------------------------------------------
(* evaluate_pitch *)

\* lines 268-274: the dict built from transcript t, analysis c and score o
EvaluationDictSwapped(t, c, o) ==
    [kind |-> "dict",
     transcript |-> t,
     ambitiousness_evaluation |-> c.sec["ambitiousness"],
     implementation_evaluation |-> c.sec["delivery"],
     delivery_evaluation |-> c.sec["implementation"],
     overall_score |-> o]

EvaluationDict(t, c, o) ==
    [kind |-> "dict",
     transcript |-> t,
     ambitiousness_evaluation |-> c.sec["ambitiousness"],
     implementation_evaluation |-> c.sec["implementation"],
     delivery_evaluation |-> c.sec["delivery"],
     overall_score |-> o]

\* lines 267-276
CompileEvaluation ==
    /\ pc = "compile"
    /\ evaluation' = EvaluationDict(transcript, content_analysis, overall_score)
    /\ pc' = "returned"
    /\ UNCHANGED server
    /\ UNCHANGED <<entry, max_retries, attempt, transcript, prompt,
                   content_analysis, overall_score, error, upload_res,
                   submit_res, poll_log, llm_log, uploads, submits, polls,
                   llm_requests, sleeps, analyze_calls, score_calls>>

----------------------------------------------------------------------------
(* main.py: analyze_pitch, run by one event loop for concurrent requests *)

Requests == 1..MaxRequests

Filenames == {"pitch.m4a", "demo.m4a"}

\* disk[f] is the file uploads/f names: the number of the request whose
\* open() created it, NoFile if the path does not exist
NoFile == 0

\* the content of a file: the audio of request r is r
EmptyFile == 0

HandlerState(p, f, h, o) == [hpc |-> p, filename |-> f, file |-> h, outcome |-> o]

NoOutcome == [status |-> "none", audio |-> EmptyFile]

NotReceived == HandlerState("absent", "", NoFile, NoOutcome)

\* evaluate_pitch, line 67, as a function of the audio that was uploaded
Evaluated(a) == [status |-> "evaluated", audio |-> a]

\* lines 74-82: open() in _upload_file found no file at file_path
UploadFailed == [status |-> "Error uploading file", audio |-> EmptyFile]

\* line 46: a request arrives with the file it uploads
ReceiveFile ==
    /\ \E r \in Requests, f \in Filenames :
         /\ handler[r].hpc = "absent"
         /\ handler' = [handler EXCEPT ![r] = HandlerState("received", f, NoFile, NoOutcome)]
    /\ UNCHANGED <<disk, inode_data>>
    /\ UNCHANGED pipeline

\* lines 48-57: open(file_path, "wb") creates or truncates the file; the
\* handler is then suspended in `await file.read()`
SaveOpen ==
    /\ \E r \in Requests :
         /\ handler[r].hpc = "received"
         /\ LET f == handler[r].filename
                n == IF disk[f] = NoFile THEN r ELSE disk[f]
            IN  /\ disk' = [disk EXCEPT ![f] = n]
                /\ inode_data' = [inode_data EXCEPT ![n] = EmptyFile]
                /\ handler' = [handler EXCEPT ![r].hpc = "reading", ![r].file = n]
    /\ UNCHANGED pipeline

\* the file evaluate_pitch uploads for path f once request r has written its
\* audio: _upload_file, line 328
Uploaded(r, f, data) == data[disk[f]]

\* lines 57-82 after the read: write the audio to the open file and close it,
\* evaluate_pitch(file_path) without a further suspension, os.remove
SaveAndEvaluate ==
    /\ \E r \in Requests :
         /\ handler[r].hpc = "reading"
         /\ LET f == handler[r].filename
                written == [inode_data EXCEPT ![handler[r].file] = r]
            IN  /\ inode_data' = written
                /\ IF disk[f] = NoFile
                   THEN /\ handler' = [handler EXCEPT ![r].hpc = "done",
                                                      ![r].outcome = UploadFailed]
                        /\ disk' = disk
                   ELSE /\ handler' = [handler EXCEPT ![r].hpc = "done",
                                          ![r].outcome = Evaluated(Uploaded(r, f, written))]
                        /\ disk' = [disk EXCEPT ![f] = NoFile]
    /\ UNCHANGED pipeline

----------------------------------------------------------------------------
(* The calls *)

Fresh ==
    /\ attempt = 0
    /\ prompt = <<>>
    /\ overall_score = NoScore
    /\ evaluation = NoEvaluation
    /\ error = <<>>
    /\ upload_res = "none"
    /\ submit_res = "none"
    /\ poll_log = <<>>
    /\ llm_log = <<>>
    /\ uploads = 0
    /\ submits = 0
    /\ polls = 0
    /\ llm_requests = 0
    /\ sleeps = 0
    /\ analyze_calls = 0
    /\ score_calls = 0

\* main.py is not running
NoServer ==
    /\ handler = [r \in Requests |-> NotReceived]
    /\ disk = [f \in Filenames |-> NoFile]
    /\ inode_data = [n \in Requests |-> EmptyFile]

Init ==
    /\ Fresh
    /\ NoServer
    /\ \/ /\ entry = "evaluate_pitch"
          /\ pc = "upload"
          /\ max_retries = DefaultMaxRetries
          /\ transcript = ""
          /\ content_analysis = Unset
       \/ /\ entry = "transcribe_audio"
          /\ pc = "upload"
          /\ max_retries = DefaultMaxRetries
          /\ transcript = ""
          /\ content_analysis = Unset
       \/ /\ entry = "analyze_transcript"
          /\ pc = "call_analyze"
          /\ max_retries \in MinRetriesArg..MaxRetriesArg
          /\ transcript \in Texts
          /\ content_analysis = Unset
       \/ /\ entry = "_calculate_overall_score"
          /\ pc = "call_score"
          /\ max_retries = DefaultMaxRetries
          /\ transcript = ""
          /\ content_analysis \in DirectContents

Next ==
    \/ UploadFile
    \/ SubmitJob
    \/ Poll
    \/ PollSleep
    \/ AnalyzeTranscript
    \/ GetEvaluationPrompt
    \/ ChatCompletion
    \/ RetrySleep
    \/ CalculateOverallScore
    \/ CompileEvaluation

Spec == Init /\ [][Next]_vars

\* analyze_transcript called directly; the code runs on until it returns or
\* raises: every request is answered or fails, every sleep ends
InitAnalyze == Init /\ entry = "analyze_transcript"

NextAnalyze ==
    \/ AnalyzeTranscript
    \/ GetEvaluationPrompt
    \/ ChatCompletion
    \/ RetrySleep

SpecAnalyze == InitAnalyze /\ [][NextAnalyze]_vars /\ WF_vars(NextAnalyze)

\* no call of PitchEvaluator is modelled step by step while main.py runs
InitServer ==
    /\ Fresh
    /\ NoServer
    /\ entry = "analyze_pitch"
    /\ pc = "server"
    /\ max_retries = DefaultMaxRetries
    /\ transcript = ""
    /\ content_analysis = Unset

NextServer ==
    \/ ReceiveFile
    \/ SaveOpen
    \/ SaveAndEvaluate

SpecServer == InitServer /\ [][NextServer]_vars

----------------------------------------------------------------------------
(* Observations used by the properties *)

Terminated == pc \in {"returned", "raised"}

LastPoll == poll_log[Len(poll_log)]

LastOutcome == llm_log[Len(llm_log)]

\* the sequence of statuses answered 2xx so far
Statuses == [k \in 1..Len(poll_log) |-> poll_log[k].status]

AllPollsOk == \A k \in 1..Len(poll_log) : poll_log[k].http = "ok"

\* every poll before the last one answered an in-progress status
WaitedUntilLast ==
    \A k \in 1..(Len(poll_log) - 1) :
        poll_log[k].http = "ok" /\ poll_log[k].status \notin {"completed", "error"}

\* transcription failed: upload, job submission, a poll request or 'error'
TranscriptionFailed ==
    \/ upload_res \in {"non2xx", "transport", "open_error"}
    \/ submit_res \in {"non2xx", "transport"}
    \/ /\ poll_log # <<>>
       /\ \/ LastPoll.http # "ok"
          \/ LastPoll.status = "error"

\* the stage of the pipeline the call of evaluate_pitch is in
Stage ==
    CASE pc = "upload" -> "Uploading"
      [] pc \in {"submit", "poll", "poll_sleep"} -> "Transcribing"
      [] pc \in {"call_analyze", "prompt"} /\ llm_requests = 0 -> "Prompting"
      [] pc \in {"request", "retry_sleep"} -> "Analyzing"
      [] pc \in {"call_analyze", "prompt"} /\ llm_requests > 0 -> "Analyzing"
      [] pc \in {"call_score", "compile"} -> "Aggregating"
      [] pc = "returned" -> "Done"
      [] pc = "raised" -> "Failed"

Rank(st) ==
    CASE st = "Uploading" -> 1
      [] st = "Transcribing" -> 2
      [] st = "Prompting" -> 3
      [] st = "Analyzing" -> 4
      [] st = "Aggregating" -> 5
      [] st = "Done" -> 6
      [] st = "Failed" -> 7

----------------------------------------------------------------------------
(* Properties *)

\* C1: whenever transcription has failed in a call of evaluate_pitch (upload,
\* job submission, a poll request or an 'error' status), the call has raised,
\* no request has been sent to the language model, and neither
\* analyze_transcript nor _calculate_overall_score has been invoked.
ShortCircuit ==
    (entry = "evaluate_pitch" /\ TranscriptionFailed) =>
        /\ pc = "raised"
        /\ llm_requests = 0
        /\ analyze_calls = 0
        /\ score_calls = 0

ShortCircuitWitness ==
    /\ entry = "evaluate_pitch"
    /\ pc = "raised"
    /\ Len(poll_log) = 2
    /\ LastPoll.status = "error"
    /\ llm_requests = 0
    /\ score_calls = 0

\* C2 (state part): a language-model request has been issued only if the
\* last poll answered 'completed'; aggregation has started only if the last
\* language-model response parsed and is the analysis being aggregated.
StageRequirements ==
    /\ llm_requests > 0 =>
          /\ poll_log # <<>>
          /\ LastPoll.http = "ok"
          /\ LastPoll.status = "completed"
    /\ score_calls > 0 =>
          /\ llm_log # <<>>
          /\ LastOutcome.kind = "json"
          /\ content_analysis = LastOutcome.content

\* C2 (step part): a step keeps the stage, moves to the next stage, or fails;
\* no step leaves Done or Failed.
StageStep ==
    /\ Stage \notin {"Done", "Failed"}
    /\ \/ Stage' = Stage
       \/ Rank(Stage') = Rank(Stage) + 1
       \/ Stage' = "Failed"

\* C2: in every execution of evaluate_pitch the stages occur only in the order
\* Uploading, Transcribing, Prompting, Analyzing, Aggregating, Done; the first
\* language-model request comes after a 'completed' poll, aggregation after
\* analysis returned a parsed value, and Failed (like Done) is terminal.
StrictStageOrder ==
    /\ [](entry = "evaluate_pitch" => StageRequirements)
    /\ [][entry = "evaluate_pitch" => StageStep]_vars

StrictStageOrderWitness ==
    /\ entry = "evaluate_pitch"
    /\ pc = "returned"
    /\ Len(poll_log) = 3
    /\ Len(llm_log) = 2
    /\ score_calls = 1

\* every response received so far was empty or not valid JSON
AllUnparseable ==
    \A k \in 1..Len(llm_log) : llm_log[k].kind \in {"empty", "invalid"}

\* C3 as stated: when every response fails to parse, analyze_transcript
\* re-sends the request exactly max_retries times after the initial one
\* (max_retries + 1 requests) and then fails with an error.
RetriesExactlyMaxRetries ==
    (entry = "analyze_transcript" /\ Terminated /\ llm_log # <<>> /\ AllUnparseable) =>
        /\ pc = "raised"
        /\ llm_requests = max_retries + 1

\* C3 amended: with max_retries >= 1, when every response fails to parse,
\* analyze_transcript sends exactly max_retries requests in all (the initial
\* one and max_retries - 1 retries, each after a backoff) and then fails with
\* an error instead of returning a value.
AttemptsExactlyMaxRetries ==
    (entry = "analyze_transcript" /\ max_retries >= 1 /\ Terminated /\ AllUnparseable) =>
        /\ pc = "raised"
        /\ error # <<>>
        /\ content_analysis = Unset
        /\ llm_requests = max_retries
        /\ sleeps = max_retries - 1

AttemptsExactlyMaxRetriesWitness ==
    /\ entry = "analyze_transcript"
    /\ max_retries = 3
    /\ pc = "raised"
    /\ AllUnparseable
    /\ llm_requests = 3

\* C4: analyze_transcript returns the parsed content of the first response
\* that is non-empty valid JSON and sends nothing after it: a parsed response
\* is always the last one, it is the k-th of exactly k requests (k <=
\* max_retries), and a value returned after a request is that content.
FirstParseReturned ==
    entry = "analyze_transcript" =>
        /\ \A k \in 1..Len(llm_log) :
              llm_log[k].kind = "json" =>
                 /\ k = Len(llm_log)
                 /\ k = llm_requests
                 /\ k <= max_retries
                 /\ pc = "returned"
                 /\ content_analysis = llm_log[k].content
        /\ (pc = "returned" /\ llm_requests > 0) => LastOutcome.kind = "json"

FirstParseReturnedWitness ==
    /\ entry = "analyze_transcript"
    /\ pc = "returned"
    /\ llm_requests = 3
    /\ llm_log[1].kind = "invalid"
    /\ llm_log[2].kind = "empty"
    /\ llm_log[3].kind = "json"
    /\ content_analysis.kind = "obj"

\* C5: when the polls answered n-1 in-progress statuses and then 'completed'
\* with text T, all 2xx, transcribe_audio has returned exactly T after exactly
\* n poll requests; and it returns only then.
PollingSuccess ==
    entry = "transcribe_audio" =>
        /\ (poll_log # <<>> /\ AllPollsOk /\ WaitedUntilLast
              /\ LastPoll.status = "completed") =>
              /\ pc = "returned"
              /\ transcript = LastPoll.text
              /\ polls = Len(poll_log)
              /\ error = <<>>
        /\ pc = "returned" =>
              /\ poll_log # <<>>
              /\ LastPoll.http = "ok"
              /\ LastPoll.status = "completed"
              /\ WaitedUntilLast

PollingSuccessWitness ==
    /\ entry = "transcribe_audio"
    /\ pc = "returned"
    /\ Statuses = <<"queued", "processing", "completed">>
    /\ polls = 3
    /\ transcript = "hello world"

\* C6: when the polls answered in-progress statuses and then 'error',
\* transcribe_audio has failed with a transcription error carrying the
\* message the service reported, has returned no transcript, and no poll
\* follows the one that reported 'error'.
PollingFailure ==
    entry = "transcribe_audio" =>
        \A k \in 1..Len(poll_log) :
            (poll_log[k].http = "ok" /\ poll_log[k].status = "error") =>
                /\ k = Len(poll_log)
                /\ polls = k
                /\ pc = "raised"
                /\ error = <<"Error in audio transcription", "Transcription error",
                             poll_log[k].error>>
                /\ transcript = ""

PollingFailureWitness ==
    /\ entry = "transcribe_audio"
    /\ pc = "raised"
    /\ Statuses = <<"queued", "processing", "error">>
    /\ error[3] = "unsupported format"

\* _calculate_overall_score has returned a score
ScoreReturned ==
    \/ entry = "_calculate_overall_score" /\ pc = "returned"
    \/ entry = "evaluate_pitch" /\ pc \in {"compile", "returned"}

\* the totals (hundredths) the score was computed from
TotalOf(sec) == content_analysis.sec[sec].total.v

\* C7: the score returned is 0.35*a + 0.50*i + 0.15*d rounded to 2 decimal
\* places: it is within half a hundredth of the weighted sum, equal to
\* (35a + 50i + 15d)/100 for whole totals; (8, 6, 10) gives 7.3 and (4, 4, 4)
\* gives 4.0.
WeightedAggregation ==
    ScoreReturned =>
        LET a == TotalOf("ambitiousness")
            i == TotalOf("implementation")
            d == TotalOf("delivery")
            exact == 35 * a + 50 * i + 15 * d
        IN  /\ 100 * overall_score - exact <= 50
            /\ exact - 100 * overall_score <= 50
            /\ (a = 800 /\ i = 600 /\ d = 1000) => overall_score = 730
            /\ (a = 400 /\ i = 400 /\ d = 400) => overall_score = 400

WeightedAggregationWitness ==
    /\ entry = "_calculate_overall_score"
    /\ pc = "returned"
    /\ TotalOf("ambitiousness") = 800
    /\ TotalOf("implementation") = 600
    /\ TotalOf("delivery") = 1000
    /\ overall_score = 730

\* C8: whatever numeric totals are handed to the aggregator, also totals
\* below 0 or above 10, the overall_score returned lies within [0, 10].
OverallScoreInRange ==
    ScoreReturned => (0 <= overall_score /\ overall_score <= 1000)

RECURSIVE SumOver(_, _)
SumOver(f, keys) ==
    IF keys = {} THEN 0
    ELSE LET k == CHOOSE x \in keys : TRUE
         IN  f[k] + SumOver(f, keys \ {k})

\* the total of a section is the mean of its category scores, to the
\* hundredth
TotalIsMean(section) ==
    LET n == Cardinality(DOMAIN section.cats)
        sum == SumOver(section.cats, DOMAIN section.cats)
    IN  /\ section.kind = "obj"
        /\ section.total.kind = "num"
        /\ n > 0
        /\ section.total.v * n - 100 * sum <= n
        /\ 100 * sum - section.total.v * n <= n

\* C9: in every result returned by evaluate_pitch the total of each section,
\* which is the value the overall score was computed from, is the arithmetic
\* mean of the scores of the categories of that section.
SectionTotalIsMean ==
    (entry = "evaluate_pitch" /\ pc = "returned") =>
        /\ TotalIsMean(evaluation.ambitiousness_evaluation)
        /\ TotalIsMean(evaluation.implementation_evaluation)
        /\ TotalIsMean(evaluation.delivery_evaluation)

\* the section is an object holding every category key of sec
HasAllCategories(c, sec) ==
    /\ c.sec[sec].kind = "obj"
    /\ DOMAIN c.sec[sec].cats = {CategoryKeys(sec)[j] : j \in 1..4}

\* C10: whenever analyze_transcript returns the parsed content of a response,
\* that content is an object with the three sections ambitiousness,
\* implementation and delivery, each holding all its category keys.
SchemaGuarantee ==
    (entry = "analyze_transcript" /\ pc = "returned" /\ llm_requests > 0) =>
        /\ content_analysis.kind = "obj"
        /\ \A sec \in Sections : HasAllCategories(content_analysis, sec)

\* a total is missing from the analysis or is not a number
NonNumericTotal(c) ==
    \E sec \in Sections :
        c.sec[sec].total.kind \in {"absent", "str", "null", "bool", "list", "obj"}

\* C11: whenever one of the three totals is missing or is not a number
\* (string, null, boolean, list or object), _calculate_overall_score fails with
\* an aggregation error and no score or result is returned.
AggregationFailure ==
    (score_calls > 0 /\ NonNumericTotal(content_analysis)) =>
        /\ pc = "raised"
        /\ \E k \in 1..Len(error) : error[k] = "Error calculating overall score"
        /\ overall_score = NoScore
        /\ evaluation = NoEvaluation

\* the stage an error description names, "" if it names none
StageNamed(e) ==
    IF Len(e) < 2 THEN ""
    ELSE CASE e[2] = "Error in audio transcription" ->
                IF Len(e) >= 3 /\ e[3] = "Error uploading file" THEN "Uploading"
                ELSE "Transcribing"
           [] e[2] = "Error in transcript analysis after max_retries attempts" -> "Analyzing"
           [] e[2] = "Error calculating overall score" -> "Aggregating"
           [] OTHER -> ""

\* C12: every execution of evaluate_pitch ends in Done with a complete result
\* and no error, or in Failed with one error and no result; the description of
\* the error names the stage that failed and, after it, the underlying cause.
SingleWrappedFailure ==
    (entry = "evaluate_pitch" /\ Terminated) =>
        \/ /\ pc = "returned"
           /\ error = <<>>
           /\ evaluation.kind = "dict"
        \/ /\ pc = "raised"
           /\ evaluation = NoEvaluation
           /\ StageNamed(error) \in {"Uploading", "Transcribing", "Analyzing", "Aggregating"}
           /\ Len(error) >= 3

\* C13: when the attempts are used up and the last response was empty or not
\* valid JSON, analyze_transcript fails with a parse error that includes the
\* raw payload of that response, of another kind than the error it fails
\* with when the last attempt met a transport or service error.
DistinguishableFailures ==
    (entry = "analyze_transcript" /\ pc = "raised"
        /\ LastOutcome.kind \in {"empty", "invalid"}) =>
        /\ \E k \in 1..Len(error) : error[k] = RawContent(LastOutcome)
        /\ ExhaustedClass(LastOutcome.kind) # ExhaustedClass("svc_error")

\* the keys of a returned dict
Fields(e) == DOMAIN e \ {"kind"}

\* C14 as stated: on success evaluate_pitch returns an object with exactly the
\* fields transcript, ambitiousness, implementation, delivery and
\* overall_score, transcript being the text of the 'completed' poll.
ResultFieldsAsSpecified ==
    (entry = "evaluate_pitch" /\ pc = "returned") =>
        /\ Fields(evaluation) = {"transcript", "ambitiousness", "implementation",
                                 "delivery", "overall_score"}
        /\ evaluation.transcript = LastPoll.text

\* C14 amended: on success evaluate_pitch returns an object with exactly the
\* fields transcript, ambitiousness_evaluation, implementation_evaluation,
\* delivery_evaluation and overall_score; transcript is the text of the
\* 'completed' poll, each section is the section the analysis returned,
\* unchanged, and overall_score is the score the aggregator returned.
ResultSchema ==
    (entry = "evaluate_pitch" /\ pc = "returned") =>
        /\ Fields(evaluation) = {"transcript", "ambitiousness_evaluation",
                                 "implementation_evaluation",
                                 "delivery_evaluation", "overall_score"}
        /\ LastPoll.status = "completed"
        /\ evaluation.transcript = LastPoll.text
        /\ LastOutcome.kind = "json"
        /\ evaluation.ambitiousness_evaluation = LastOutcome.content.sec["ambitiousness"]
        /\ evaluation.implementation_evaluation = LastOutcome.content.sec["implementation"]
        /\ evaluation.delivery_evaluation = LastOutcome.content.sec["delivery"]
        /\ evaluation.overall_score = overall_score

ResultSchemaWitness ==
    /\ entry = "evaluate_pitch"
    /\ pc = "returned"
    /\ Len(poll_log) = 2
    /\ evaluation.transcript = "second pitch"
    /\ evaluation.delivery_evaluation.total = Num(733)
    /\ evaluation.overall_score = 772

\* the outcome request r has when it runs alone
AloneOutcome(r) == Evaluated(r)

\* C15: whatever the interleaving of concurrent requests, also of two uploads
\* with the same filename, the outcome of each request is the outcome it has
\* when it runs alone.
IndependentRuns ==
    \A r \in Requests :
        handler[r].hpc = "done" => handler[r].outcome = AloneOutcome(r)

\* every poll so far answered 2xx with an in-progress status
AllInProgress ==
    \A k \in 1..Len(poll_log) :
        poll_log[k].http = "ok" /\ poll_log[k].status \notin {"completed", "error"}

\* transcribe_audio has returned or raised
TranscriptionEnded == pc \notin {"upload", "submit", "poll", "poll_sleep"}

\* C16: transcribe_audio enforces no maximum poll count.  As long as every
\* poll answers 2xx with an in-progress status it has not ended and goes on
\* polling, whatever the number of polls; once the polling has started it ends
\* only on a poll that reports 'completed' or 'error' or that fails.
UnboundedPolling ==
    entry \in {"transcribe_audio", "evaluate_pitch"} =>
        /\ (poll_log # <<>> /\ AllInProgress) =>
              /\ pc \in {"poll_sleep", "poll"}
              /\ error = <<>>
        /\ (TranscriptionEnded /\ poll_log # <<>>) =>
              \/ LastPoll.http # "ok"
              \/ LastPoll.status \in {"completed", "error"}
        /\ (TranscriptionEnded /\ poll_log = <<>>) =>
              (upload_res # "ok" \/ submit_res # "ok")

UnboundedPollingWitness ==
    /\ entry = "transcribe_audio"
    /\ polls = MaxPolls
    /\ Len(poll_log) = MaxPolls
    /\ AllInProgress
    /\ pc = "poll_sleep"

\* the request budget is kept, and a backoff has happened only after a failed
\* attempt that another request follows
BudgetKept ==
    /\ llm_requests <= max_retries
    /\ \/ /\ llm_requests = 0
          /\ sleeps = 0
       \/ /\ sleeps = llm_requests - 1
          /\ pc \in {"retry_sleep", "returned", "raised"}
       \/ /\ sleeps = llm_requests
          /\ pc \in {"prompt", "request"}
          /\ llm_requests < max_retries

\* C17: in every execution of analyze_transcript with max_retries >= 1,
\* whatever the mix of empty responses, parse failures and service errors, at
\* most max_retries requests are sent, the call terminates, and a backoff wait
\* occurs only between two requests, never after the last failed attempt or
\* after a success.
RetryBudget ==
    /\ [](max_retries >= 1 => BudgetKept)
    /\ (max_retries >= 1) ~> Terminated

RetryBudgetWitness ==
    /\ entry = "analyze_transcript"
    /\ max_retries = 3
    /\ pc = "raised"
    /\ llm_requests = 3
    /\ sleeps = 2
    /\ llm_log[1].kind = "svc_error"
    /\ llm_log[2].kind = "empty"
    /\ llm_log[3].kind = "invalid"

\* C18: in every execution of evaluate_pitch the upload request and the
\* job-submission request are sent at most once and analyze_transcript and
\* _calculate_overall_score are invoked at most once; only polls and
\* language-model attempts repeat.
OrchestratorRetriesNothing ==
    entry = "evaluate_pitch" =>
        /\ uploads <= 1
        /\ submits <= 1
        /\ analyze_calls <= 1
        /\ score_calls <= 1
        /\ (Terminated /\ upload_res \in RequestAnswers) => uploads = 1
        /\ (Terminated /\ submit_res \in RequestAnswers) => submits = 1

OrchestratorRetriesNothingWitness ==
    /\ entry = "evaluate_pitch"
    /\ pc = "returned"
    /\ uploads = 1
    /\ submits = 1
    /\ polls = 3
    /\ llm_requests = 3
    /\ analyze_calls = 1
    /\ score_calls = 1

\* message m is one of the layers of the error raised
ErrorMentions(m) == \E k \in 1..Len(error) : error[k] = m

\* C19: a non-2xx answer to the upload makes transcribe_audio fail with an
\* upload error before any job-submission or poll request is sent; a non-2xx
\* answer to the job submission makes it fail with the error of that request
\* before any poll request is sent.
FailureOrdering ==
    entry \in {"transcribe_audio", "evaluate_pitch"} =>
        /\ upload_res = "non2xx" =>
              /\ pc = "raised"
              /\ ErrorMentions("Error uploading file")
              /\ error[Len(error)] = "HTTPError"
              /\ uploads = 1
              /\ submits = 0
              /\ polls = 0
        /\ submit_res = "non2xx" =>
              /\ pc = "raised"
              /\ ErrorMentions("Error in audio transcription")
              /\ ~ErrorMentions("Error uploading file")
              /\ error[Len(error)] = "HTTPError"
              /\ uploads = 1
              /\ submits = 1
              /\ polls = 0

FailureOrderingWitness ==
    /\ entry = "transcribe_audio"
    /\ upload_res = "ok"
    /\ submit_res = "non2xx"
    /\ pc = "raised"
    /\ polls = 0

\* C20: with max_retries <= 0 analyze_transcript sends no request and returns
\* None without raising; evaluate_pitch calls it with the default of 3, so
\* there an analysis is never returned without a request.
NoAttemptReturnsNone ==
    /\ (entry = "analyze_transcript" /\ max_retries <= 0) =>
          /\ llm_requests = 0
          /\ error = <<>>
          /\ pc \in {"call_analyze", "returned"}
          /\ pc = "returned" => content_analysis = NoneValue
    /\ entry = "evaluate_pitch" =>
          /\ max_retries = DefaultMaxRetries
          /\ pc \in {"call_score", "compile", "returned"} => llm_requests >= 1

NoAttemptReturnsNoneWitness ==
    /\ entry = "analyze_transcript"
    /\ max_retries = 0
    /\ pc = "returned"
    /\ content_analysis = NoneValue
    /\ llm_requests = 0
    /\ analyze_calls = 1

\* C21: a poll request that answers non-2xx or fails in transport aborts the
\* transcription at once: transcribe_audio has failed on that poll with the
\* error of the request, no poll follows it, and no transcript is returned;
\* the poll is not retried.
PollFailureAborts ==
    entry \in {"transcribe_audio", "evaluate_pitch"} =>
        \A k \in 1..Len(poll_log) :
            poll_log[k].http # "ok" =>
                /\ k = Len(poll_log)
                /\ polls = k
                /\ pc = "raised"
                /\ ErrorMentions("Error in audio transcription")
                /\ error[Len(error)] \in {"HTTPError", "ConnectionError"}
                /\ transcript = ""
                /\ evaluation = NoEvaluation
                /\ llm_requests = 0

PollFailureAbortsWitness ==
    /\ entry = "transcribe_audio"
    /\ pc = "raised"
    /\ polls = 2
    /\ poll_log[1].http = "ok"
    /\ poll_log[1].status = "processing"
    /\ poll_log[2].http = "non2xx"
    /\ error = <<"Error in audio transcription", "HTTPError">>

====
